---- MODULE Spec2Model ----
(***************************************************************************)
(* Model of the stylelint rule design-token-guard/enforce-tokens: one lint *)
(* pass loads the token catalog, walks the declarations of a document and, *)
(* for each value node, reports an exact token match, a ranked list of     *)
(* close matches, or nothing; in fix mode an exact match is written back.  *)
(*                                                                         *)
(* A string is a sequence of one-character strings, so that endsWith,      *)
(* substring, parseFloat, the value tokenizer and its serializer are       *)
(* computed character by character.  A number is an integer count of       *)
(* thousandths (Scale), which is exact for literals with at most three     *)
(* fractional digits.                                                      *)
(***************************************************************************)
EXTENDS Integers, Sequences, FiniteSets, TLC

(***************************************************************************)
(* Bounds                                                                  *)
(***************************************************************************)
\* entries of the token map of the single category of Spec
MaxTokens == 2

\* entries of each of the two token maps of SpecCats
MaxCatTokens == 1

\* categories of a catalog file of SpecCatalog
MaxCategories == 2

\* passes over one document in SpecCats
MaxPasses == 2

(***************************************************************************)
(* Characters and numbers                                                  *)
(***************************************************************************)
Scale == 10 * 10 * 10

DigitChars == <<"0", "1", "2", "3", "4", "5", "6", "7", "8", "9">>

IsDigit(c) == \E d \in 1..10 : DigitChars[d] = c

DigitVal(c) == (CHOOSE d \in 1..10 : DigitChars[d] = c) - 1

\* code <= 32 in the tokenizer, StrWhiteSpaceChar in parseFloat
IsSpace(c) == c = " "

Abs(n) == IF n < 0 THEN -n ELSE n

UpperChars == <<"A", "B", "C", "D", "E", "F", "G", "H", "I", "J", "K", "L", "M",
                "N", "O", "P", "Q", "R", "S", "T", "U", "V", "W", "X", "Y", "Z">>

LowerChars == <<"a", "b", "c", "d", "e", "f", "g", "h", "i", "j", "k", "l", "m",
                "n", "o", "p", "q", "r", "s", "t", "u", "v", "w", "x", "y", "z">>

ToLowerChar(c) ==
    IF \E i \in 1..26 : UpperChars[i] = c
    THEN LowerChars[CHOOSE i \in 1..26 : UpperChars[i] = c]
    ELSE c

\* String.prototype.toLowerCase
toLowerCase(s) == [i \in 1..Len(s) |-> ToLowerChar(s[i])]

\* String.prototype.endsWith
endsWith(s, suffix) ==
    /\ Len(s) >= Len(suffix)
    /\ SubSeq(s, Len(s) - Len(suffix) + 1, Len(s)) = suffix

\* first index at or after i that holds no digit
RECURSIVE DigitsEnd(_, _)
DigitsEnd(s, i) ==
    IF i <= Len(s) /\ IsDigit(s[i]) THEN DigitsEnd(s, i + 1) ELSE i

\* first index at or after i that holds no white space
RECURSIVE SpaceEnd(_, _)
SpaceEnd(s, i) ==
    IF i <= Len(s) /\ IsSpace(s[i]) THEN SpaceEnd(s, i + 1) ELSE i

\* the natural number written by the digits s[i..j-1]
RECURSIVE NatOf(_, _, _)
NatOf(s, i, j) ==
    IF j <= i THEN 0 ELSE NatOf(s, i, j - 1) * 10 + DigitVal(s[j - 1])

\* the fraction written by the digits s[i..j-1], in thousandths
FracOf(s, i, j) ==
    (IF i < j THEN DigitVal(s[i]) * 100 ELSE 0)
    + (IF i + 1 < j THEN DigitVal(s[i + 1]) * 10 ELSE 0)
    + (IF i + 2 < j THEN DigitVal(s[i + 2]) ELSE 0)

Null == [isNull |-> TRUE, num |-> 0]

Num(n) == [isNull |-> FALSE, num |-> n]

NaN == [isNaN |-> TRUE, num |-> 0]

\* the decimal literal with integer digits s[i1..i2-1] and, when i3 > i2,
\* a "." at i2 and fraction digits s[i2+1..i3-1]; NaN when it has no digit
DecimalValue(s, i1, i2, i3, neg) ==
    IF (i2 - i1) + (IF i3 > i2 THEN i3 - i2 - 1 ELSE 0) = 0
    THEN NaN
    ELSE [isNaN |-> FALSE,
          num |-> (IF neg THEN -1 ELSE 1)
                  * (NatOf(s, i1, i2) * Scale + FracOf(s, i2 + 1, i3))]

DecimalParts(s, i1, i2, neg) ==
    DecimalValue(s, i1, i2,
                 IF i2 <= Len(s) /\ s[i2] = "." THEN DigitsEnd(s, i2 + 1) ELSE i2,
                 neg)

SignedFrom(s, i0) ==
    IF i0 <= Len(s) /\ s[i0] \in {"-", "+"}
    THEN DecimalParts(s, i0 + 1, DigitsEnd(s, i0 + 1), s[i0] = "-")
    ELSE DecimalParts(s, i0, DigitsEnd(s, i0), FALSE)

\* parseFloat: leading white space, a sign, the longest decimal prefix
parseFloat(s) == SignedFrom(s, SpaceEnd(s, 1))

(***************************************************************************)
(* helpers.ts                                                              *)
(***************************************************************************)
hasPxUnit(value) == endsWith(value, <<"p", "x">>)

\* isNaN(numericValue) ? null : numericValue
NumberOrNull(numericValue) ==
    IF numericValue.isNaN THEN Null ELSE Num(numericValue.num)

extractPxValue(pxValue) ==
    IF ~hasPxUnit(pxValue)
    THEN IF pxValue = <<"0">> THEN Num(0) ELSE Null
    ELSE NumberOrNull(parseFloat(SubSeq(pxValue, 1, Len(pxValue) - 2)))

(***************************************************************************)
(* postcss-value-parser: the tokenizer, its serializer and its walk order  *)
(***************************************************************************)
WordNode(sourceIndex, value) ==
    [type |-> "word", sourceIndex |-> sourceIndex, value |-> value,
     before |-> <<>>, after |-> <<>>, nodes |-> <<>>, unclosed |-> FALSE]

SpaceNode(sourceIndex, value) ==
    [type |-> "space", sourceIndex |-> sourceIndex, value |-> value,
     before |-> <<>>, after |-> <<>>, nodes |-> <<>>, unclosed |-> FALSE]

FunctionNode(sourceIndex, name, before, after, nodes, unclosed) ==
    [type |-> "function", sourceIndex |-> sourceIndex, value |-> name,
     before |-> before, after |-> after, nodes |-> nodes, unclosed |-> unclosed]

\* a word runs to the next white space, "(" or, inside a function, ")"
RECURSIVE WordEnd(_, _, _)
WordEnd(value, next, balanced) ==
    IF next <= Len(value)
       /\ ~(\/ IsSpace(value[next])
            \/ value[next] = "("
            \/ (value[next] = ")" /\ balanced > 0))
    THEN WordEnd(value, next + 1, balanced)
    ELSE next

\* The nodes from position pos to the ")" that closes the enclosing function
\* (balanced > 0) or to the end of the value.
RECURSIVE ParseNodes(_, _, _)
Prepend(node, rest) == [rest EXCEPT !.nodes = <<node>> \o @]

FunctionOf(value, open, name, balanced, next, inner) ==
    Prepend(FunctionNode(open - Len(name) - 1, name,
                         SubSeq(value, open + 1, next - 1),
                         inner.after, inner.nodes, ~inner.closed),
            ParseNodes(value, inner.pos, balanced))

FunctionFrom(value, open, name, balanced, next) ==
    FunctionOf(value, open, name, balanced, next,
               ParseNodes(value, next, balanced + 1))

\* "(" at open, after the word name: the white space after it is the
\* function's before, the nodes up to the matching ")" are its nodes
ParseFunction(value, open, name, balanced) ==
    FunctionFrom(value, open, name, balanced, SpaceEnd(value, open + 1))

\* white space value[pos..next-1]: the after of the enclosing function when
\* ")" follows, a space node otherwise
ParseSpace(value, pos, next, balanced) ==
    IF next <= Len(value) /\ value[next] = ")" /\ balanced > 0
    THEN [nodes |-> <<>>, pos |-> next + 1, closed |-> TRUE,
          after |-> SubSeq(value, pos, next - 1)]
    ELSE Prepend(SpaceNode(pos - 1, SubSeq(value, pos, next - 1)),
                 ParseNodes(value, next, balanced))

\* the word value[pos..next-1]: a function's name when "(" follows
ParseWord(value, pos, next, balanced) ==
    IF next <= Len(value) /\ value[next] = "("
    THEN ParseFunction(value, next, SubSeq(value, pos, next - 1), balanced)
    ELSE Prepend(WordNode(pos - 1, SubSeq(value, pos, next - 1)),
                 ParseNodes(value, next, balanced))

ParseNodes(value, pos, balanced) ==
    IF pos > Len(value)
    THEN [nodes |-> <<>>, pos |-> pos, closed |-> FALSE, after |-> <<>>]
    ELSE IF IsSpace(value[pos])
    THEN ParseSpace(value, pos, SpaceEnd(value, pos), balanced)
    ELSE IF value[pos] = "("
    THEN ParseFunction(value, pos, <<>>, balanced)
    ELSE IF value[pos] = ")" /\ balanced > 0
    THEN [nodes |-> <<>>, pos |-> pos + 1, closed |-> TRUE, after |-> <<>>]
    ELSE ParseWord(value, pos, WordEnd(value, pos + 1, balanced), balanced)

valueParser(value) == ParseNodes(value, 1, 0).nodes

RECURSIVE stringify(_)
stringifyNode(node) ==
    IF node.type = "function"
    THEN node.value \o <<"(">> \o node.before \o stringify(node.nodes)
         \o node.after \o (IF node.unclosed THEN <<>> ELSE <<")">>)
    ELSE node.value

stringify(nodes) ==
    IF nodes = <<>> THEN <<>>
    ELSE stringifyNode(Head(nodes)) \o stringify(Tail(nodes))

\* the paths of the nodes of a tree in the order walk visits them
RECURSIVE PathsFrom(_, _, _)
PathsFrom(nodes, i, prefix) ==
    IF i > Len(nodes) THEN <<>>
    ELSE <<Append(prefix, i)>>
         \o PathsFrom(nodes[i].nodes, 1, Append(prefix, i))
         \o PathsFrom(nodes, i + 1, prefix)

RECURSIVE NodeAt(_, _)
NodeAt(nodes, path) ==
    IF Len(path) = 1 THEN nodes[path[1]]
    ELSE NodeAt(nodes[path[1]].nodes, Tail(path))

RECURSIVE SetValueAt(_, _, _)
SetValueAt(nodes, path, value) ==
    IF Len(path) = 1
    THEN [nodes EXCEPT ![path[1]].value = value]
    ELSE [nodes EXCEPT ![path[1]].nodes = SetValueAt(@, Tail(path), value)]

IsPrefix(p, q) == Len(p) <= Len(q) /\ SubSeq(q, 1, Len(p)) = p


(***************************************************************************)
(* JavaScript objects and arrays as the rule reads them                    *)
(***************************************************************************)
\* Array.prototype.sort with the comparator (a, b) => a.diff - b.diff: stable,
\* ascending
\* variant: an unstable sort, which puts a candidate before its equals
RECURSIVE InsertBeforeEquals(_, _)
InsertBeforeEquals(sorted, m) ==
    IF sorted = <<>> THEN <<m>>
    ELSE IF m.diff <= Head(sorted).diff THEN <<m>> \o sorted
    ELSE <<Head(sorted)>> \o InsertBeforeEquals(Tail(sorted), m)

RECURSIVE InsertByDiff(_, _)
InsertByDiff(sorted, m) ==
    IF sorted = <<>> THEN <<m>>
    ELSE IF m.diff < Head(sorted).diff THEN <<m>> \o sorted
    ELSE <<Head(sorted)>> \o InsertByDiff(Tail(sorted), m)

RECURSIVE sort(_)
sort(closeMatches) ==
    IF closeMatches = <<>> THEN <<>>
    ELSE InsertByDiff(sort(SubSeq(closeMatches, 1, Len(closeMatches) - 1)),
                      closeMatches[Len(closeMatches)])

\* a canonical array index: such keys come first, ascending, in for...in
IsArrayIndex(key) ==
    /\ Len(key) > 0
    /\ \A i \in 1..Len(key) : IsDigit(key[i])
    /\ (Len(key) = 1 \/ key[1] # "0")

RECURSIVE SelectEntries(_, _)
SelectEntries(entries, wantIndex) ==
    IF entries = <<>> THEN <<>>
    ELSE (IF IsArrayIndex(Head(entries).key) = wantIndex THEN <<Head(entries)>> ELSE <<>>)
         \o SelectEntries(Tail(entries), wantIndex)

\* for (const key in object): the own keys in property order
Ranked(indexed) ==
    sort([i \in 1..Len(indexed) |->
            [entry |-> indexed[i],
             diff |-> NatOf(indexed[i].key, 1, Len(indexed[i].key) + 1)]])

Entries(ranked) == [i \in 1..Len(ranked) |-> ranked[i].entry]

ForIn(entries) ==
    Entries(Ranked(SelectEntries(entries, TRUE))) \o SelectEntries(entries, FALSE)

\* object[key]
HasKey(entries, key) == \E i \in 1..Len(entries) : entries[i].key = key

Get(entries, key) == entries[CHOOSE i \in 1..Len(entries) : entries[i].key = key].value

\* the truthiness of object[key] for string members: defined and not ""
Truthy(entries, key) == HasKey(entries, key) /\ Get(entries, key) # <<>>

\* Array.prototype.includes
includes(items, x) == \E i \in 1..Len(items) : items[i] = x

\* Array.prototype.join
RECURSIVE join(_, _)
join(strs, sep) ==
    IF strs = <<>> THEN <<>>
    ELSE IF Len(strs) = 1 THEN strs[1]
    ELSE strs[1] \o sep \o join(Tail(strs), sep)


(***************************************************************************)
(* The rule: constants and messages                                        *)
(***************************************************************************)
DEFAULT_TOKEN_MATCH_MARGIN == 2

\* messages.exactMatch(tokenName, originalValue, propertyName)
exactMatch(tokenName, originalValue, propertyName) ==
    [fn |-> "exactMatch", tokenName |-> tokenName, tokenPxValue |-> <<>>,
     originalValue |-> originalValue, propertyName |-> propertyName,
     otherSuggestions |-> <<>>, otherClause |-> FALSE]

\* messages.closeMatch(tokenName, tokenPxValue, originalValue, otherSuggestions):
\* the "Other close matches" clause is there when otherSuggestions is truthy
closeMatch(tokenName, tokenPxValue, originalValue, otherSuggestions) ==
    [fn |-> "closeMatch", tokenName |-> tokenName, tokenPxValue |-> tokenPxValue,
     originalValue |-> originalValue, propertyName |-> <<>>,
     otherSuggestions |-> otherSuggestions,
     otherClause |-> otherSuggestions # <<>>]

\* m => `${m.tokenName} ('${m.tokenPxValue}')`
SuggestionText(m) ==
    m.tokenName \o <<" ", "(", "'">> \o m.tokenPxValue \o <<"'", ")">>

(***************************************************************************)
(* The rule: one value node against one category (the walk callback)       *)
(***************************************************************************)
\* variant: the margin itself is out of reach (diff < tokenMatchMargin)
QualifiesBelowMargin(diff, margin) == diff > 0 /\ diff < margin

\* diff > 0 && diff <= tokenMatchMargin
Qualifies(diff, margin) == diff > 0 /\ diff <= margin

\* one turn of the loop over category.tokens that fills closeMatches
CloseMatchOf(entry, numericPxValue, numTokenPx, margin) ==
    IF /\ (hasPxUnit(entry.key) \/ entry.key = <<"0">>)
       /\ ~numTokenPx.isNull
       /\ Qualifies(Abs(numericPxValue - numTokenPx.num), margin)
    THEN <<[tokenPxValue |-> entry.key, tokenName |-> entry.value,
            diff |-> Abs(numericPxValue - numTokenPx.num)]>>
    ELSE <<>>

RECURSIVE CollectCloseMatches(_, _, _)
CollectCloseMatches(tokenEntries, numericPxValue, margin) ==
    IF tokenEntries = <<>> THEN <<>>
    ELSE CloseMatchOf(Head(tokenEntries), numericPxValue,
                      extractPxValue(Head(tokenEntries).key), margin)
         \o CollectCloseMatches(Tail(tokenEntries), numericPxValue, margin)

\* variant: the write does not look at context.fix
ShouldWriteWithoutFix(contextFix, nodeValue, tokenToSuggest) ==
    nodeValue # tokenToSuggest

\* context.fix && node.value !== tokenToSuggest
ShouldWrite(contextFix, nodeValue, tokenToSuggest) ==
    contextFix /\ nodeValue # tokenToSuggest

\* decl.prop.length + (decl.raws.between || ':').length
ValueOffset(decl) ==
    Len(decl.prop) + Len(IF decl.between = <<>> THEN <<":">> ELSE decl.between)

\* the problem given to stylelint.utils.report for the value node
Problem(ctx, node, message, severity) ==
    [pass |-> ctx.pass, decl |-> ctx.declIndex, message |-> message,
     index |-> ValueOffset(ctx.decl) + node.sourceIndex,
     endIndex |-> ValueOffset(ctx.decl) + node.sourceIndex + Len(node.value),
     severity |-> severity]

\* what the callback did with the node at path: the problems it gave to
\* stylelint.utils.report, and the history entry of the evaluation
Evaluated(st, path, node, outcome, closeMatches, wrote, problems) ==
    [st EXCEPT
        !.reports = @ \o problems,
        !.evals = Append(@,
            [path |-> path, type |-> node.type, originalValue |-> node.value,
             outcome |-> outcome, closeMatches |-> closeMatches, wrote |-> wrote,
             reported |-> problems])]

\* node.value = tokenToSuggest; decl.value = parsedValue.toString()
Written(st, nodes) == [st EXCEPT !.nodes = nodes, !.value = stringify(nodes)]

ReportExact(st, path, ctx, node, tokenToSuggest, wrote) ==
    Evaluated(st, path, node, "exact", <<>>, wrote,
              <<Problem(ctx, node,
                        exactMatch(tokenToSuggest, node.value, ctx.propertyName),
                        "default")>>)

\* if (category.tokens[originalValue]) { ... return false }
ExactBranch(st, path, ctx, node, tokenToSuggest) ==
    IF ShouldWrite(ctx.fix, node.value, tokenToSuggest)
    THEN ReportExact(Written(st, SetValueAt(st.nodes, path, tokenToSuggest)),
                     path, ctx, node, tokenToSuggest, TRUE)
    ELSE ReportExact(st, path, ctx, node, tokenToSuggest, FALSE)

\* closeMatches.slice(1).map(...).join(', ')
OtherSuggestions(closeMatches) ==
    IF Len(closeMatches) > 1
    THEN join([i \in 1..(Len(closeMatches) - 1) |-> SuggestionText(closeMatches[i + 1])],
              <<",", " ">>)
    ELSE <<>>

\* if (closeMatches.length > 0) { closeMatches.sort(...); report bestMatch }
CloseBranch(st, path, ctx, node, closeMatches) ==
    IF Len(closeMatches) > 0
    THEN Evaluated(st, path, node, "close", closeMatches, FALSE,
                   <<Problem(ctx, node,
                             closeMatch(closeMatches[1].tokenName,
                                        closeMatches[1].tokenPxValue,
                                        node.value, OtherSuggestions(closeMatches)),
                             "warning")>>)
    ELSE Evaluated(st, path, node, "none", <<>>, FALSE, <<>>)

\* The callback on one node.  st holds the parsed value (nodes), the
\* declaration's value, the problems reported, the evaluations made and
\* whether a TypeError was thrown; ctx holds what the callback closes over.
\* ret is what the callback returns, "false" or "undefined".
Evaluate(st, path, ctx, node, numericPxValue) ==
    LET originalValue == node.value
        isPxValueNode == hasPxUnit(originalValue)
        isUnitlessZeroNode == originalValue = <<"0">>
        tokens == ctx.category.tokens
        Skip == [st |-> Evaluated(st, path, node, "skipped", <<>>, FALSE, <<>>),
                 ret |-> "undefined"]
        Throw == [st |-> [st EXCEPT !.threw = TRUE], ret |-> "undefined"]
    IN  IF node.type # "word" \/ (~isPxValueNode /\ ~isUnitlessZeroNode) THEN Skip
        ELSE IF isUnitlessZeroNode /\ tokens.type # "object" THEN Throw
        ELSE IF isUnitlessZeroNode /\ ~Truthy(tokens.entries, <<"0">>) THEN Skip
        ELSE IF ~isUnitlessZeroNode /\ numericPxValue.isNull THEN Skip
        ELSE IF tokens.type # "object" THEN Throw
        ELSE IF Truthy(tokens.entries, originalValue)
        THEN [st |-> ExactBranch(st, path, ctx, node, Get(tokens.entries, originalValue)),
              ret |-> "false"]
        ELSE IF ~numericPxValue.isNull /\ ctx.tokenMatchMargin > 0
        THEN [st |-> CloseBranch(st, path, ctx, node,
                        sort(CollectCloseMatches(ForIn(tokens.entries),
                                 numericPxValue.num, ctx.tokenMatchMargin))),
              ret |-> "undefined"]
        ELSE [st |-> Evaluated(st, path, node, "none", <<>>, FALSE, <<>>),
              ret |-> "undefined"]

NodeCallback(st, path, ctx, node) ==
    Evaluate(st, path, ctx, node, extractPxValue(node.value))

\* parsedValue.walk((node) => { ... })
WalkCallback(st, path, ctx) == NodeCallback(st, path, ctx, NodeAt(st.nodes, path))

\* walk: the index of the node visited after paths[i], whose callback returned
\* ret.  A callback that returns false keeps walk out of the node's children.
RECURSIVE SkipChildren(_, _, _)
SkipChildren(paths, i, j) ==
    IF j <= Len(paths) /\ IsPrefix(paths[i], paths[j])
    THEN SkipChildren(paths, i, j + 1)
    ELSE j

\* variant: a callback that returns false ends the whole walk
WalkNextStops(paths, i, ret) ==
    IF ret = "false" THEN Len(paths) + 1 ELSE i + 1

WalkNext(paths, i, ret) ==
    IF ret = "false" THEN SkipChildren(paths, i, i + 1) ELSE i + 1

RECURSIVE walk(_, _, _, _)
WalkOn(r, paths, i, ctx) == walk(r.st, paths, WalkNext(paths, i, r.ret), ctx)

walk(st, paths, i, ctx) ==
    IF i > Len(paths) \/ st.threw THEN st
    ELSE WalkOn(WalkCallback(st, paths[i], ctx), paths, i, ctx)

(***************************************************************************)
(* The rule: one declaration (the walkDecls callback)                      *)
(***************************************************************************)
\* variant: an empty properties array throws as well
IncludesThrowsOnEmpty(properties) ==
    properties.type # "array" \/ properties.items = <<>>

\* category.properties.includes throws a TypeError unless properties is an array
IncludesThrows(properties) == properties.type # "array"

RECURSIVE VisitCategories(_, _, _)
\* history: the walk of the value parsed from acc.value, which ended in st
Walked(acc, categoryName, ctx, st) ==
    [value |-> st.value, reports |-> st.reports,
     walks |-> Append(acc.walks,
                  [pass |-> ctx.pass, decl |-> ctx.declIndex, category |-> categoryName,
                   parsedFrom |-> acc.value, valueAfter |-> st.value,
                   evals |-> st.evals, threw |-> st.threw]),
     threw |-> st.threw]

\* const parsedValue = valueParser(decl.value); parsedValue.walk(...)
WalkValue(acc, ctx, parsedValue) ==
    walk([nodes |-> parsedValue, value |-> acc.value, reports |-> acc.reports,
          evals |-> <<>>, threw |-> FALSE],
         PathsFrom(parsedValue, 1, <<>>), 1, ctx)

VisitCategory(acc, name, category, ctx) ==
    IF IncludesThrows(category.properties)
    THEN [acc EXCEPT !.threw = TRUE]
    ELSE IF includes(category.properties.items, ctx.propertyName)
    THEN Walked(acc, name, ctx,
                WalkValue(acc, [ctx EXCEPT !.category = category],
                          valueParser(acc.value)))
    ELSE acc

\* for (const categoryName in activeCategories) { ... } for one declaration.
\* acc holds the declaration's value, the problems reported, the walks made
\* and whether a TypeError was thrown.
VisitCategories(acc, categories, ctx) ==
    IF categories = <<>> \/ acc.threw THEN acc
    ELSE VisitCategories(VisitCategory(acc, Head(categories).key,
                                       Head(categories).value, ctx),
                         Tail(categories), ctx)

(***************************************************************************)
(* The rule: catalog loading                                               *)
(***************************************************************************)
\* the `possible` validators of the secondary option, and optional: false
validateOptions(primaryOption, secondaryOptionsObject) ==
    /\ primaryOption
    /\ secondaryOptionsObject.defined
    /\ (secondaryOptionsObject.tokenMatchMargin.isNull
        \/ secondaryOptionsObject.tokenMatchMargin.num >= 0)
    /\ Len(secondaryOptionsObject.tokensFilePath) > 0

\* variant: the check of a category looks at properties only
CatalogThrowsWithoutTokens(json) ==
    \/ json.type # "object"
    \/ \E i \in 1..Len(json.entries) :
          \/ json.entries[i].value.type = "null"
          \/ json.entries[i].value.properties.type = "undefined"

\* The catalog checks on the parsed file: an Error when the value is no
\* non-null object or a category lacks properties or tokens, a TypeError when
\* a category is null.
CatalogThrows(json) ==
    \/ json.type # "object"
    \/ \E i \in 1..Len(json.entries) :
          \/ json.entries[i].value.type = "null"
          \/ json.entries[i].value.properties.type = "undefined"
          \/ json.entries[i].value.tokens.type = "undefined"

ParseError(pass, text) ==
    [pass |-> pass, text |-> text, node |-> "root", stylelintType |-> "parseError"]

(***************************************************************************)
(* State                                                                   *)
(***************************************************************************)
VARIABLES
    primaryOption,          \* the rule's primary option
    secondaryOptionsObject, \* [defined, tokenMatchMargin, tokensFilePath]
    contextFix,             \* context.fix
    tokensFile,             \* the file at tokensFilePath: [exists, parses, json]
    root,                   \* the document: its declarations, in order
    rootBefore,             \* history: the document as the running pass found it
    pc,                     \* "idle", "walkDecls", "done" or "thrown"
    cursor,                 \* the declaration walkDecls visits next
    activeCategories,       \* the catalog entries of the running pass
    tokenMatchMargin,       \* the margin of the running pass, in thousandths
    reports,                \* the problems given to stylelint.utils.report
    warnings,               \* the notices given to result.warn
    walks,                  \* history: every walk of a value, with its evaluations
    pass,                   \* the number of the running pass
    valuesAfter             \* history: the declaration values at the end of each pass

vars == <<primaryOption, secondaryOptionsObject, contextFix, tokensFile, root,
          rootBefore, pc,
          cursor, activeCategories, tokenMatchMargin, reports, warnings, walks,
          pass, valuesAfter>>

inputs == <<primaryOption, secondaryOptionsObject, contextFix, tokensFile>>

Values(decls) == [i \in 1..Len(decls) |-> decls[i].value]

(***************************************************************************)
(* Actions                                                                 *)
(***************************************************************************)
\* The rule function up to root.walkDecls: options, catalog file, catalog checks.
StartPass ==
    /\ pc = "idle"
    /\ LET validOptions == validateOptions(primaryOption, secondaryOptionsObject)
           margin == IF secondaryOptionsObject.tokenMatchMargin.isNull
                     THEN DEFAULT_TOKEN_MATCH_MARGIN * Scale
                     ELSE secondaryOptionsObject.tokenMatchMargin.num
           Return(notices) ==
               /\ pc' = "done"
               /\ warnings' = warnings \o notices
               /\ valuesAfter' = Append(valuesAfter, Values(root))
               /\ UNCHANGED <<cursor, activeCategories>>
       IN  IF ~validOptions \/ ~primaryOption \/ ~secondaryOptionsObject.defined
           THEN Return(<<>>) /\ UNCHANGED tokenMatchMargin
           ELSE /\ tokenMatchMargin' = margin
                /\ IF ~tokensFile.exists
                   THEN Return(<<ParseError(pass, "Custom tokens file not found")>>)
                   ELSE IF ~tokensFile.parses \/ CatalogThrows(tokensFile.json)
                   THEN Return(<<ParseError(pass, "Error loading or parsing custom tokens file")>>)
                   ELSE IF Len(tokensFile.json.entries) = 0
                   THEN Return(<<>>)
                   ELSE /\ pc' = "walkDecls"
                        /\ cursor' = 1
                        /\ activeCategories' = tokensFile.json.entries
                        /\ UNCHANGED <<warnings, valuesAfter>>
    /\ rootBefore' = root
    /\ UNCHANGED <<inputs, root, reports, walks, pass>>

\* The walkDecls callback on the next declaration.
Visited(acc) ==
    /\ root' = [root EXCEPT ![cursor].value = acc.value]
    /\ reports' = reports \o acc.reports
    /\ walks' = walks \o acc.walks
    /\ IF acc.threw
       THEN pc' = "thrown" /\ UNCHANGED cursor
       ELSE pc' = pc /\ cursor' = cursor + 1

VisitDecl ==
    /\ pc = "walkDecls"
    /\ cursor <= Len(root)
    /\ LET decl == root[cursor]
       IN  IF decl.prop = <<>> \/ decl.value = <<>> \/ ~decl.hasSource
           THEN /\ cursor' = cursor + 1
                /\ UNCHANGED <<root, reports, walks, pc>>
           ELSE Visited(VisitCategories(
                    [value |-> decl.value, reports |-> <<>>, walks |-> <<>>,
                     threw |-> FALSE],
                    ForIn(activeCategories),
                    [pass |-> pass, declIndex |-> cursor, decl |-> decl,
                     propertyName |-> toLowerCase(decl.prop), category |-> <<>>,
                     fix |-> contextFix, tokenMatchMargin |-> tokenMatchMargin]))
    /\ UNCHANGED <<inputs, rootBefore, activeCategories, tokenMatchMargin, warnings,
                   pass, valuesAfter>>

\* walkDecls has visited every declaration: the rule function returns.
EndPass ==
    /\ pc = "walkDecls"
    /\ cursor > Len(root)
    /\ pc' = "done"
    /\ valuesAfter' = Append(valuesAfter, Values(root))
    /\ UNCHANGED <<inputs, root, rootBefore, cursor, activeCategories,
                   tokenMatchMargin, reports, warnings, walks, pass>>


\* The host runs the rule again on the document as the pass left it.
Rerun ==
    /\ pc = "done"
    /\ pass < MaxPasses
    /\ pc' = "idle"
    /\ pass' = pass + 1
    /\ UNCHANGED <<inputs, root, rootBefore, cursor, activeCategories,
                   tokenMatchMargin, reports, warnings, walks, valuesAfter>>

Next == StartPass \/ VisitDecl \/ EndPass

NextRerun == StartPass \/ VisitDecl \/ EndPass \/ Rerun

(***************************************************************************)
(* Inputs                                                                  *)
(***************************************************************************)
Zero == <<"0">>
Px1 == <<"1", "p", "x">>
Px2 == <<"2", "p", "x">>
Px14 == <<"1", "4", "p", "x">>
Px16 == <<"1", "6", "p", "x">>
Px17 == <<"1", "7", "p", "x">>
Px18 == <<"1", "8", "p", "x">>
Px16Dot0 == <<"1", "6", ".", "0", "p", "x">>
Px18Dot001 == <<"1", "8", ".", "0", "0", "1", "p", "x">>
AbcPx == <<"a", "b", "c", "p", "x">>
Rem1 == <<"1", "r", "e", "m">>
VarA == <<"v", "a", "r", "(", "-", "-", "a", ")">>
VarB == <<"v", "a", "r", "(", "-", "-", "b", ")">>
Margin == <<"m", "a", "r", "g", "i", "n">>
MarginUpper == <<"M", "A", "R", "G", "I", "N">>
Padding == <<"p", "a", "d", "d", "i", "n", "g">>
Color == <<"c", "o", "l", "o", "r">>
Px16Px14 == <<"1", "6", "p", "x", " ", "1", "4", "p", "x">>
CalcPx16Px14 == <<"c", "a", "l", "c", "(", " ", "1", "6", "p", "x", ")", " ", "1", "4", "p", "x">>
Px14Px17 == <<"1", "4", "p", "x", " ", "1", "7", "p", "x">>
ColonSpace == <<":", " ">>
TokensJson == <<"t", ".", "j", "s", "o", "n">>
CatA == <<"A">>
CatB == <<"B">>
CatC == <<"C">>

Undefined == [type |-> "undefined", items |-> <<>>, entries |-> <<>>]

JsonNull == [type |-> "null", items |-> <<>>, entries |-> <<>>]

Array(items) == [type |-> "array", items |-> items, entries |-> <<>>]

Object(entries) == [type |-> "object", items |-> <<>>, entries |-> entries]

Category(properties, tokens) ==
    [type |-> "object", properties |-> properties, tokens |-> tokens]

NullCategory == [type |-> "null", properties |-> Undefined, tokens |-> Undefined]

Decl(prop, value) ==
    [prop |-> prop, between |-> ColonSpace, value |-> value, hasSource |-> TRUE]

Options(margin) ==
    [defined |-> TRUE, tokenMatchMargin |-> margin, tokensFilePath |-> TokensJson]

File(json) == [exists |-> TRUE, parses |-> TRUE, json |-> json]

\* the token maps of at most max entries, in insertion order, keys distinct
TokenMaps(keys, names, max) ==
    UNION {{m \in [1..n -> [key : keys, value : names]] :
              \A i, j \in 1..n : i # j => m[i].key # m[j].key} : n \in 0..max}

Start ==
    /\ pc = "idle"
    /\ cursor = 1
    /\ activeCategories = <<>>
    /\ tokenMatchMargin = 0
    /\ reports = <<>>
    /\ warnings = <<>>
    /\ walks = <<>>
    /\ pass = 1
    /\ valuesAfter = <<>>
    /\ rootBefore = root

\* One category, one declaration with one literal: every token map over the
\* keys, every margin.
MatchKeys == {Zero, Px2, Px14, Px16, Px18, Px16Dot0, Px18Dot001, AbcPx, Rem1}

MatchNames == {VarA, <<>>}

MatchValues == {Px16, Px17, Px1, Zero, AbcPx}

MatchMargins == {Null, Num(0), Num(Scale)}

Init ==
    /\ primaryOption = TRUE
    /\ secondaryOptionsObject \in {Options(m) : m \in MatchMargins}
    /\ contextFix = FALSE
    /\ tokensFile \in
         {File(Object(<<[key |-> CatA,
                         value |-> Category(Array(<<Margin>>), Object(t))]>>)) :
            t \in TokenMaps(MatchKeys, MatchNames, MaxTokens)}
    /\ root \in {<<Decl(Margin, v)>> : v \in MatchValues}
    /\ Start

Spec == Init /\ [][Next]_vars

\* Two categories, A for margin and B for padding and margin, and two
\* declarations, margin with several literals and padding with one, run up to
\* MaxPasses times with and without fix mode.
CatsKeys == {Px16, Px14}

CatsNames == {VarA, VarB, Px14}

CatsValues == {Px16Px14, CalcPx16Px14, Px14Px17}

InitCats ==
    /\ primaryOption = TRUE
    /\ secondaryOptionsObject = Options(Null)
    /\ contextFix \in BOOLEAN
    /\ tokensFile \in
         {File(Object(<<[key |-> CatA, value |-> Category(Array(<<Margin>>), Object(ta))],
                        [key |-> CatB, value |-> Category(Array(pb), Object(tb))]>>)) :
            ta \in TokenMaps(CatsKeys, CatsNames, MaxCatTokens),
            tb \in TokenMaps(CatsKeys, CatsNames, MaxCatTokens),
            pb \in {<<Padding, Margin>>}}
    /\ root \in {<<Decl(Margin, v), Decl(Padding, Px16)>> : v \in CatsValues}
    /\ Start

SpecCats == InitCats /\ [][NextRerun]_vars

\* Catalog files of every shape, well-formed or not, and option objects,
\* valid or not.
CategoryPool ==
    {Category(Array(<<Margin>>), Object(<<[key |-> Px16, value |-> VarA]>>)),
     Category(Array(<<Padding>>), Object(<<[key |-> Zero, value |-> VarB]>>)),
     Category(Array(<<>>), Object(<<>>)),
     Category(Undefined, Object(<<[key |-> Px16, value |-> VarA]>>)),
     Category(Array(<<Margin>>), Undefined),
     Category(JsonNull, Object(<<[key |-> Px16, value |-> VarA]>>)),
     Category(Array(<<Margin>>), JsonNull),
     NullCategory}

CategoryNames == <<CatA, CatB, CatC, Margin>>

Catalogs ==
    UNION {{Object([i \in 1..n |-> [key |-> CategoryNames[i], value |-> c[i]]]) :
              c \in [1..n -> CategoryPool]} : n \in 0..MaxCategories}

CatalogFiles ==
    {File(json) : json \in Catalogs \cup {JsonNull, [JsonNull EXCEPT !.type = "number"]}}
    \cup {[exists |-> FALSE, parses |-> FALSE, json |-> JsonNull],
          [exists |-> TRUE, parses |-> FALSE, json |-> JsonNull]}

CatalogOptions ==
    {Options(Null), Options(Num(-Scale)),
     [Options(Null) EXCEPT !.defined = FALSE],
     [Options(Null) EXCEPT !.tokensFilePath = <<>>]}

CatalogRoots ==
    {<<Decl(MarginUpper, Px16), Decl(Padding, Zero)>>,
     <<Decl(Color, Px16), Decl(Margin, AbcPx)>>,
     <<Decl(Margin, <<>>), Decl(Margin, Px17)>>,
     <<[Decl(Margin, Px16) EXCEPT !.hasSource = FALSE],
       [Decl(Margin, Px16) EXCEPT !.between = <<>>]>>}

InitCatalog ==
    /\ \/ primaryOption = TRUE /\ secondaryOptionsObject \in CatalogOptions
       \/ primaryOption = FALSE /\ secondaryOptionsObject = Options(Null)
    /\ contextFix \in BOOLEAN
    /\ tokensFile \in CatalogFiles
    /\ root \in CatalogRoots
    /\ Start

SpecCatalog == InitCatalog /\ [][Next]_vars


(***************************************************************************)
(* Vocabulary of the properties                                            *)
(***************************************************************************)
\* the token map of the category a walk was made for
TokensOf(categoryName) == Get(tokensFile.json.entries, categoryName).tokens.entries

Keys(entries) == {entries[i].key : i \in 1..Len(entries)}

\* every evaluation made so far, with the category it was made for
Evals ==
    UNION {{[category |-> walks[w].category, pass |-> walks[w].pass,
             decl |-> walks[w].decl, walk |-> w, at |-> k,
             eval |-> walks[w].evals[k]] : k \in 1..Len(walks[w].evals)} :
             w \in 1..Len(walks)}

\* a word whose text ends in px and reads as a number
IsPxNumber(e) ==
    e.type = "word" /\ hasPxUnit(e.originalValue) /\ ~extractPxValue(e.originalValue).isNull

IsZero(e) == e.type = "word" /\ e.originalValue = Zero

ReportsExact(e) ==
    Len(e.reported) = 1 /\ e.reported[1].message.fn = "exactMatch"

ReportsClose(e) ==
    Len(e.reported) = 1 /\ e.reported[1].message.fn = "closeMatch"

\* the catalog file was read and parsed under valid options
Loaded ==
    /\ validateOptions(primaryOption, secondaryOptionsObject)
    /\ tokensFile.exists
    /\ tokensFile.parses


(***************************************************************************)
(* Close matches                                                           *)
(***************************************************************************)
\* the keys of a token map that are px-suffixed or "0", read as a number t
\* and lie at 0 < |n - t| <= m
QualifyingKeys(tokenEntries, n, m) ==
    {k \in Keys(tokenEntries) :
        /\ (hasPxUnit(k) \/ k = Zero)
        /\ ~extractPxValue(k).isNull
        /\ 0 < Abs(n - extractPxValue(k).num)
        /\ Abs(n - extractPxValue(k).num) <= m}

SuggestedKeys(e) == {e.closeMatches[i].tokenPxValue : i \in 1..Len(e.closeMatches)}

\* C2: for a px value node of magnitude n whose text is no key of the
\* category, the keys suggested by the close-match diagnostic are exactly the
\* keys that are px-suffixed or "0", read as a number t and lie at
\* 0 < |n - t| <= margin; when no key qualifies (always so at margin 0) no
\* diagnostic is reported.
C2_CloseMatchKeys ==
    \A x \in Evals :
        (IsPxNumber(x.eval) /\ ~HasKey(TokensOf(x.category), x.eval.originalValue)) =>
            LET expected == QualifyingKeys(TokensOf(x.category),
                                           extractPxValue(x.eval.originalValue).num,
                                           tokenMatchMargin)
            IN  /\ SuggestedKeys(x.eval) = expected
                /\ Len(x.eval.closeMatches) = Cardinality(expected)
                /\ (expected = {} => x.eval.reported = <<>>)
                /\ (expected # {} =>
                       /\ ReportsClose(x.eval)
                       /\ x.eval.reported[1].message.tokenPxValue \in expected)
                /\ (tokenMatchMargin = 0 => x.eval.reported = <<>>)

\* a key at exactly the margin is suggested while a key of the same magnitude
\* as the node, spelled differently, is not
C2_Witness ==
    \E x \in Evals :
        /\ IsPxNumber(x.eval)
        /\ ~HasKey(TokensOf(x.category), x.eval.originalValue)
        /\ ReportsClose(x.eval)
        /\ \E i \in 1..Len(x.eval.closeMatches) :
              x.eval.closeMatches[i].diff = tokenMatchMargin
        /\ \E k \in Keys(TokensOf(x.category)) :
              /\ ~extractPxValue(k).isNull
              /\ extractPxValue(k) = extractPxValue(x.eval.originalValue)

\* the place of a key in the iteration order of a token map
KeyOrder(tokenEntries, k) ==
    CHOOSE i \in 1..Len(tokenEntries) : ForIn(tokenEntries)[i].key = k

\* the text of the secondary suggestions, from the second candidate on
RECURSIVE OthersText(_, _)
OthersText(closeMatches, i) ==
    IF i > Len(closeMatches) THEN <<>>
    ELSE closeMatches[i].tokenName \o <<" ", "(", "'">>
         \o closeMatches[i].tokenPxValue \o <<"'", ")">>
         \o (IF i < Len(closeMatches) THEN <<",", " ">> ELSE <<>>)
         \o OthersText(closeMatches, i + 1)

\* C3: the candidates of a close-match diagnostic are in non-decreasing diff,
\* equal diffs in the iteration order of the token keys; the primary
\* suggestion is the first candidate and the secondary list is the rest in
\* that order, with no "Other close matches" clause when the rest is empty.
C3_Ranking ==
    \A x \in Evals :
        ReportsClose(x.eval) =>
            LET cm == x.eval.closeMatches
                message == x.eval.reported[1].message
                n == extractPxValue(x.eval.originalValue).num
                Diff(i) == Abs(n - extractPxValue(cm[i].tokenPxValue).num)
                Order(i) == KeyOrder(TokensOf(x.category), cm[i].tokenPxValue)
            IN  /\ Len(cm) >= 1
                /\ \A i, j \in 1..Len(cm) :
                      i < j => /\ Diff(i) <= Diff(j)
                               /\ (Diff(i) = Diff(j) => Order(i) < Order(j))
                /\ message.tokenPxValue = cm[1].tokenPxValue
                /\ message.tokenName = Get(TokensOf(x.category), cm[1].tokenPxValue)
                /\ message.otherSuggestions = OthersText(cm, 2)
                /\ message.otherClause = (Len(cm) > 1)
                /\ x.eval.reported[1].severity = "warning"

\* two candidates at the same diff, the one inserted later iterated first
C3_Witness ==
    \E x \in Evals :
        /\ ReportsClose(x.eval)
        /\ Len(x.eval.closeMatches) = 2
        /\ x.eval.closeMatches[1].diff = x.eval.closeMatches[2].diff
        /\ x.eval.closeMatches[1].tokenPxValue = Zero
        /\ TokensOf(x.category)[1].key # Zero
        /\ x.eval.reported[1].message.otherClause

(***************************************************************************)
(* Exact matches                                                           *)
(***************************************************************************)
\* C4: a node "0" against a category without a "0" key reports nothing;
\* against a category with a "0" key it reports exactly one exact match and
\* no close match.
C4_UnitlessZero ==
    \A x \in Evals :
        IsZero(x.eval) =>
            IF HasKey(TokensOf(x.category), Zero)
            THEN ReportsExact(x.eval)
            ELSE x.eval.reported = <<>>

\* C8: a px or "0" word whose text is a key of the category's token map
\* reports exactly one diagnostic, the exact match with the token the key
\* maps to, and no close-match search is made.
C8_ExactMatchOnKey ==
    \A x \in Evals :
        ((IsPxNumber(x.eval) \/ IsZero(x.eval))
            /\ HasKey(TokensOf(x.category), x.eval.originalValue)) =>
            /\ ReportsExact(x.eval)
            /\ x.eval.reported[1].message.tokenName
                  = Get(TokensOf(x.category), x.eval.originalValue)
            /\ x.eval.outcome = "exact"


\* the categories, in iteration order, that list the property of a
\* declaration and hold the text as a key
CategoriesWithKey(decl, text) ==
    SelectSeq(ForIn(tokensFile.json.entries),
              LAMBDA c : /\ includes(c.value.properties.items, toLowerCase(root[decl].prop))
                         /\ HasKey(c.value.tokens.entries, text))

ExactReports == {i \in 1..Len(reports) : reports[i].message.fn = "exactMatch"}

\* C1: a value node whose text is a key of two categories that both list the
\* declaration's property gets at most one exact-match diagnostic in a pass,
\* and it names the token of the first of the categories.
C1_FirstCategoryOnly ==
    /\ \A i, j \in ExactReports :
          (/\ i # j
           /\ reports[i].pass = reports[j].pass
           /\ reports[i].decl = reports[j].decl
           /\ reports[i].index = reports[j].index
           /\ reports[i].message.originalValue = reports[j].message.originalValue)
          => FALSE
    /\ \A i \in ExactReports :
          LET both == CategoriesWithKey(reports[i].decl, reports[i].message.originalValue)
          IN  Len(both) >= 2 =>
                 reports[i].message.tokenName
                    = Get(both[1].value.tokens.entries, reports[i].message.originalValue)

(***************************************************************************)
(* Fixing                                                                  *)
(***************************************************************************)
\* C5: in fix mode a second pass leaves every declaration value as the first
\* pass left it.
C5_FixIdempotent ==
    (contextFix /\ Len(valuesAfter) >= 2) => valuesAfter[2] = valuesAfter[1]

C9_State ==
    /\ \A w \in 1..Len(walks) :
          /\ walks[w].valueAfter # walks[w].parsedFrom =>
                /\ contextFix
                /\ \E k \in 1..Len(walks[w].evals) :
                      /\ ReportsExact(walks[w].evals[k])
                      /\ walks[w].evals[k].reported[1].message.tokenName
                            # walks[w].evals[k].originalValue
          /\ (\A k \in 1..Len(walks[w].evals) : ~ReportsExact(walks[w].evals[k]))
                => walks[w].valueAfter = walks[w].parsedFrom
    /\ \A x \in Evals :
          x.eval.wrote <=>
              /\ ReportsExact(x.eval)
              /\ contextFix
              /\ x.eval.reported[1].message.tokenName # x.eval.originalValue
    /\ ~contextFix => root = rootBefore

C9_Step ==
    \A i \in 1..Len(root) :
        root'[i] # root[i] => (pc = "walkDecls" /\ i = cursor /\ contextFix)

\* C9: a declaration value is written only by an exact match, in fix mode,
\* with a token name that differs from the node's text; without fix mode no
\* value differs from the one the pass found; a walk without an exact match
\* leaves the value as parsed; a step writes no declaration but the one
\* being visited.
C9_WriteFrame == []C9_State /\ [][C9_Step]_vars

\* in fix mode one walk writes an exact match and also reports a close match,
\* and the other declaration keeps its value
C9_Witness ==
    /\ contextFix
    /\ \E w \in 1..Len(walks) :
          /\ walks[w].decl = 1
          /\ walks[w].valueAfter # walks[w].parsedFrom
          /\ \E k \in 1..Len(walks[w].evals) : walks[w].evals[k].wrote
          /\ \E k \in 1..Len(walks[w].evals) : ReportsClose(walks[w].evals[k])
    /\ root[1] # rootBefore[1]
    /\ root[2] = rootBefore[2]

(***************************************************************************)
(* Walk order                                                              *)
(***************************************************************************)
\* the texts of the word nodes of a parsed value, in parse order
RECURSIVE WordsOf(_)
WordsOf(nodes) ==
    IF nodes = <<>> THEN <<>>
    ELSE (IF Head(nodes).type = "word" THEN <<Head(nodes).value>>
          ELSE WordsOf(Head(nodes).nodes))
         \o WordsOf(Tail(nodes))

WordEvals(w) == SelectSeq(walks[w].evals, LAMBDA e : e.type = "word")

Categories == {tokensFile.json.entries[i].value : i \in 1..Len(tokensFile.json.entries)}

\* the parsed file is no non-null object, or one of its categories lacks the
\* properties or the tokens field
Malformed ==
    \/ tokensFile.json.type # "object"
    \/ \E c \in Categories :
          c.type = "object" /\ (c.properties.type = "undefined" \/ c.tokens.type = "undefined")

\* C6: when the loaded catalog is no non-null object or a category lacks
\* properties or tokens, the pass ends with exactly one notice, attached to
\* the whole document, no diagnostic, no value evaluated and every
\* declaration value as it was.
C6_MalformedCatalog ==
    (Loaded /\ Malformed) =>
        /\ pc \in {"idle", "done"}
        /\ reports = <<>>
        /\ walks = <<>>
        /\ root = rootBefore
        /\ pc = "idle" => warnings = <<>>
        /\ pc = "done" =>
              /\ Len(warnings) = 1
              /\ warnings[1].node = "root"
              /\ warnings[1].stylelintType = "parseError"

\* the pass has ended on a catalog whose first category is well formed and
\* applies to a declaration, and whose second category lacks tokens
C6_Witness ==
    /\ Loaded
    /\ pc = "done"
    /\ Len(tokensFile.json.entries) = 2
    /\ tokensFile.json.entries[1].value
          = Category(Array(<<Margin>>), Object(<<[key |-> Px16, value |-> VarA]>>))
    /\ tokensFile.json.entries[2].value.tokens.type = "undefined"
    /\ toLowerCase(root[1].prop) = Margin
    /\ root[1].value = Px16
    /\ Len(warnings) = 1

\* the catalog passes the checks of the loader
PassesValidator ==
    /\ tokensFile.parses
    /\ tokensFile.json.type = "object"
    /\ \A c \in Categories :
          c.type = "object" /\ c.properties.type # "undefined" /\ c.tokens.type # "undefined"

\* every category has an array of properties and an object of tokens
WellTyped ==
    /\ PassesValidator
    /\ \A c \in Categories : c.properties.type = "array" /\ c.tokens.type = "object"

\* a node the callback leaves alone: no word, neither px nor "0", or px
\* without a number before it
Inapplicable(e) ==
    \/ e.type # "word"
    \/ (~hasPxUnit(e.originalValue) /\ e.originalValue # Zero)
    \/ (hasPxUnit(e.originalValue) /\ extractPxValue(e.originalValue).isNull)

Completes ==
    /\ pc # "thrown"
    /\ (pc = "done" /\ Loaded /\ Len(tokensFile.json.entries) > 0)
          => cursor = Len(root) + 1
    /\ \A x \in Evals : Inapplicable(x.eval) =>
          x.eval.outcome = "skipped" /\ x.eval.reported = <<>>

\* C7 as stated: with any catalog that passes the checks of the loader, the
\* pass throws nothing and visits every declaration.
C7_NeverThrows == PassesValidator => Completes

\* C7: with a catalog that passes the checks of the loader and whose
\* categories each have an array of properties and an object of tokens, the
\* pass throws nothing, visits every declaration, and skips every
\* inapplicable or un-parseable node without a diagnostic.
C7_NeverThrowsWellTyped == WellTyped => Completes

\* a pass over a well-typed catalog has ended after visiting both
\* declarations, one of them with an un-parseable px literal
C7_Witness ==
    /\ WellTyped
    /\ Loaded
    /\ pc = "done"
    /\ cursor = Len(root) + 1
    /\ \E x \in Evals : x.eval.originalValue = AbcPx /\ x.eval.outcome = "skipped"

====
